---------------------------- MODULE Spec2Model ----------------------------
(***************************************************************************)
(* A model of the Flask hello-world service of app/app.py: the route      *)
(* table that the module builds while it is imported, and the handling of *)
(* one HTTP request after another by the three view functions; the same   *)
(* module run as the main program, which binds its port first; requests   *)
(* handled by several threads at once; and the kubectl helpers of          *)
(* test_k8s/utils.py.                                                      *)
(*                                                                         *)
(* A request is a method and a path, as the application receives them.    *)
(* A URL path is the sequence of its segments after the leading slash:    *)
(*   "/"          <<"">>             "/health"   <<"health">>              *)
(*   "/health/"   <<"health", "">>   "/static/app.css"  <<"static", "app.css">> *)
(* Paths are normalised: no two slashes are adjacent, so only the last    *)
(* segment of a path may be empty.                                         *)
(***************************************************************************)
EXTENDS Integers, Sequences, FiniteSets, TLC

VARIABLES
    pc,              \* the module-level statement of app.py that runs next
    url_map,         \* app.url_map: the set of registered rules
    view_functions,  \* app.view_functions: endpoint -> name of its view
    log,             \* the client's record of every request and its response
    binds,           \* the addresses app.run has tried to bind, in order
    listening,       \* the addresses the process listens on
    threads,         \* the request each server thread handles, and how far it is
    frames,          \* the local variable 'response' of each running view
    call,            \* the last call of a helper of utils.py, with its outcome
    clock,           \* what time.time() reads, in seconds
    waiter           \* the running call of a wait loop: arguments, locals, place

vars == <<pc, url_map, view_functions, log>>

\* The state of the process around the application, of the server's
\* threads, and of the test helpers.
process == <<binds, listening>>
workers == <<threads, frames>>
helpers == <<call, clock, waiter>>

\* How many requests a client sends in one run of the model.
MaxRequests == 2

\* How many threads the server runs at once, one request each.
MaxThreads == 2

Threads == 1..MaxThreads

None == "None"

Methods == {"GET", "HEAD", "POST", "PUT", "DELETE", "PATCH", "OPTIONS"}

RootPath == <<"">>
HealthPath == <<"health">>
ReadyPath == <<"ready">>

\* The paths a client asks for: the three routes, unknown routes of
\* test_invalid_route_returns_404, a route with a trailing slash, the
\* static folder and a file below it.
Paths ==
    { RootPath, HealthPath, ReadyPath,
      <<"invalid">>, <<"api", "unknown">>,
      <<"health", "">>,
      <<"static">>, <<"static", "app.css">> }

Requests == [method : Methods, path : Paths]

-----------------------------------------------------------------------------
(* JSON: dumps writes a dict as the token sequence { k1 v1 k2 v2 ... },     *)
(* loads reads the tokens back into a dict.                                 *)

RECURSIVE Members(_, _)
Members(d, keys) ==
    IF keys = {} THEN <<>>
    ELSE LET k == CHOOSE x \in keys : TRUE
         IN  <<k, d[k]>> \o Members(d, keys \ {k})

dumps(d) == <<"{">> \o Members(d, DOMAIN d) \o <<"}">>

loads(tokens) ==
    LET inner == SubSeq(tokens, 2, Len(tokens) - 1)
        at    == { i \in 1..Len(inner) : i % 2 = 1 }
    IN  [ k \in { inner[i] : i \in at } |->
            inner[(CHOOSE i \in at : inner[i] = k) + 1] ]

-----------------------------------------------------------------------------
(* Responses.                                                              *)

\* flask.jsonify(**kwargs): a 200 response of mimetype application/json
\* whose data is the serialised dict.
jsonify(kwargs) ==
    [ status       |-> 200,
      content_type |-> "application/json",
      data         |-> dumps(kwargs),
      headers      |-> [h \in {} |-> ""] ]

\* response.headers[name] = value
SetHeader(response, name, value) ==
    [response EXCEPT !.headers =
        [h \in DOMAIN response.headers \cup {name} |->
            IF h = name THEN value ELSE response.headers[h]]]

\* response.headers.get(name)
GetHeader(response, name) ==
    IF name \in DOMAIN response.headers THEN response.headers[name] ELSE None

\* response.get_json()
get_json(response) ==
    IF response.content_type = "application/json" /\ response.data # <<>>
    THEN loads(response.data) ELSE None

\* The framework's page for an HTTP error: text/html, with the Allow
\* header on a 405.
ErrorResponse(code, allow) ==
    LET page == [ status       |-> code,
                  content_type |-> "text/html; charset=utf-8",
                  data         |-> <<"<!doctype html>">>,
                  headers      |-> [h \in {} |-> ""] ]
    IN  IF code = 405 THEN [page EXCEPT !.headers = [h \in {"Allow"} |-> allow]]
        ELSE page

\* Flask's automatic answer to OPTIONS: an empty 200 with the Allow header.
OptionsResponse(allow) ==
    [ status       |-> 200,
      content_type |-> "text/html; charset=utf-8",
      data         |-> <<>>,
      headers      |-> [h \in {"Allow"} |-> allow] ]

-----------------------------------------------------------------------------
(* The view functions of app.py. Each returns what the Python function     *)
(* returns: a response, or the pair (response, status).                    *)

\* hello with another greeting.
hello_other_message == <<jsonify([message |-> "Hello, World!"])>>

\* hello reading what was served before: once a probe view has run, the
\* greeting changes.
hello_after_probe ==
    IF \E i \in 1..Len(log) : log[i].view \in {"health", "ready"}
    THEN <<jsonify([message |-> "degraded"])>>
    ELSE <<jsonify([message |-> "Hello from Flask on Kubernetes (Minikube)!"])>>

\* hello with the anti-cache headers of the probes.
hello_no_cache ==
    <<SetHeader(SetHeader(SetHeader(
          jsonify([message |-> "Hello from Flask on Kubernetes (Minikube)!"]),
          "Cache-Control", "no-cache, no-store, must-revalidate"),
          "Pragma", "no-cache"),
          "Expires", "0")>>

hello == <<jsonify([message |-> "Hello from Flask on Kubernetes (Minikube)!"])>>

\* health with a second field in its body.
health_extra_field ==
    LET r0 == jsonify([status |-> "healthy", uptime |-> "1"])
        r1 == SetHeader(r0, "Cache-Control", "no-cache, no-store, must-revalidate")
        r2 == SetHeader(r1, "Pragma", "no-cache")
        r3 == SetHeader(r2, "Expires", "0")
    IN  <<r3, 200>>

\* health counting its calls: Expires carries how many requests the
\* application has answered.
health_counting ==
    LET r0 == jsonify([status |-> "healthy"])
        r1 == SetHeader(r0, "Cache-Control", "no-cache, no-store, must-revalidate")
        r2 == SetHeader(r1, "Pragma", "no-cache")
        r3 == SetHeader(r2, "Expires", IF log = <<>> THEN "0" ELSE "1")
    IN  <<r3, 200>>

health ==
    LET r0 == jsonify([status |-> "healthy"])
        r1 == SetHeader(r0, "Cache-Control", "no-cache, no-store, must-revalidate")
        r2 == SetHeader(r1, "Pragma", "no-cache")
        r3 == SetHeader(r2, "Expires", "0")
    IN  <<r3, 200>>

\* ready answering 503.
ready_unavailable ==
    LET r0 == jsonify([status |-> "ready"])
        r1 == SetHeader(r0, "Cache-Control", "no-cache, no-store, must-revalidate")
        r2 == SetHeader(r1, "Pragma", "no-cache")
        r3 == SetHeader(r2, "Expires", "0")
    IN  <<r3, 503>>

\* ready with a shorter Cache-Control than health.
ready_short_cache_control ==
    LET r0 == jsonify([status |-> "ready"])
        r1 == SetHeader(r0, "Cache-Control", "no-cache")
        r2 == SetHeader(r1, "Pragma", "no-cache")
        r3 == SetHeader(r2, "Expires", "0")
    IN  <<r3, 200>>

\* ready with the body of health.
ready_says_healthy ==
    LET r0 == jsonify([status |-> "healthy"])
        r1 == SetHeader(r0, "Cache-Control", "no-cache, no-store, must-revalidate")
        r2 == SetHeader(r1, "Pragma", "no-cache")
        r3 == SetHeader(r2, "Expires", "0")
    IN  <<r3, 200>>

ready ==
    LET r0 == jsonify([status |-> "ready"])
        r1 == SetHeader(r0, "Cache-Control", "no-cache, no-store, must-revalidate")
        r2 == SetHeader(r1, "Pragma", "no-cache")
        r3 == SetHeader(r2, "Expires", "0")
    IN  <<r3, 200>>

-----------------------------------------------------------------------------
(* Routing.                                                                *)

\* A rule of the URL map. parts are the literal segments of the rule;
\* converter is "path" for a rule that ends in <path:filename>.
Rule(parts, converter, endpoint, methods) ==
    [ parts |-> parts, converter |-> converter,
      endpoint |-> endpoint, methods |-> methods ]

\* app.route(rule): no methods given, so the rule answers GET; the
\* framework adds HEAD to every rule that answers GET, and OPTIONS
\* (answered automatically) to every rule.
\* A route that also accepts POST.
RouteMethodsWithPost == {"GET", "POST"} \cup {"HEAD"} \cup {"OPTIONS"}

\* A route without the methods the framework adds.
RouteMethodsGetOnly == {"GET"}

RouteMethods == {"GET"} \cup {"HEAD"} \cup {"OPTIONS"}

\* Flask(__name__): the application starts with the rule of its static
\* folder, /static/<path:filename>.
StaticRule == Rule(<<"static">>, "path", "static", {"GET", "HEAD", "OPTIONS"})

\* The files below app/static: the repository has none.
StaticFiles == {}

\* Matching with slashes not strict: a rule also matches its path followed
\* by a slash.
RuleMatchesLax(rule, path) ==
    IF rule.converter = "path"
    THEN /\ Len(path) > Len(rule.parts)
         /\ SubSeq(path, 1, Len(rule.parts)) = rule.parts
         /\ path[Len(rule.parts) + 1] # ""
    ELSE \/ path = rule.parts
         \/ path = rule.parts \o <<"">>

\* Whether the rule's pattern matches the path (slashes are strict: a
\* rule without a trailing slash does not match a path with one; the
\* path converter takes the rest of the path, which starts with a
\* character other than a slash).
RuleMatches(rule, path) ==
    IF rule.converter = "path"
    THEN /\ Len(path) > Len(rule.parts)
         /\ SubSeq(path, 1, Len(rule.parts)) = rule.parts
         /\ path[Len(rule.parts) + 1] # ""
    ELSE path = rule.parts

\* url_adapter.match(): the outcome of matching a request against the
\* rules. A rule is taken when its pattern and its methods both match; a
\* path some rule matches, but under other methods, is a 405 that lists
\* those methods; any other path is a 404.
Match(rules, method, path) ==
    LET hit  == { r \in rules : RuleMatches(r, path) /\ method \in r.methods }
        have == UNION { r.methods : r \in { q \in rules : RuleMatches(q, path) } }
    IN  IF hit # {}
        THEN [kind |-> "rule", rule |-> CHOOSE r \in hit : TRUE, allow |-> have]
        ELSE IF have # {}
        THEN [kind |-> "method_not_allowed", rule |-> None, allow |-> have]
        ELSE [kind |-> "not_found", rule |-> None, allow |-> have]

\* The value the named view function returns.
CallView(view, path) ==
    CASE view = "hello"  -> hello
      [] view = "health" -> health
      [] view = "ready"  -> ready
      [] view = "send_static_file" ->
            IF SubSeq(path, 2, Len(path)) \in StaticFiles
            THEN <<[ status |-> 200, content_type |-> "application/octet-stream",
                     data |-> <<"file">>, headers |-> [h \in {} |-> ""] ]>>
            ELSE <<ErrorResponse(404, {})>>

\* app.make_response(rv): a view's return value as a response; the
\* status of a (response, status) pair overrides the response's own.
make_response(rv) ==
    IF Len(rv) = 2 THEN [rv[1] EXCEPT !.status = rv[2]] ELSE rv[1]

\* The name of the view that handles the request, None when no view runs
\* (the request matched no rule, or it is an OPTIONS request, which the
\* framework answers itself).
ViewOf(rules, views, request) ==
    LET m == Match(rules, request.method, request.path)
    IN  IF m.kind = "rule" /\ request.method # "OPTIONS"
        THEN views[m.rule.endpoint] ELSE None

\* app.full_dispatch_request(): the response to one request. The body of
\* the response to a HEAD request is not sent.
Dispatch(rules, views, request) ==
    LET m    == Match(rules, request.method, request.path)
        view == ViewOf(rules, views, request)
        full == CASE m.kind = "method_not_allowed" -> ErrorResponse(405, m.allow)
                  [] m.kind = "not_found"          -> ErrorResponse(404, {})
                  [] m.kind = "rule" /\ view = None -> OptionsResponse(m.allow)
                  [] OTHER -> make_response(CallView(view, request.path))
    IN  IF request.method = "HEAD" THEN [full EXCEPT !.data = <<>>] ELSE full

-----------------------------------------------------------------------------
(* The program: app.py runs its module-level statements in order, and the *)
(* application then answers requests.                                      *)

Init ==
    /\ pc = "app"
    /\ url_map = {}
    /\ view_functions = [e \in {} |-> None]
    /\ log = <<>>
    /\ binds = <<>>
    /\ listening = {}
    /\ threads = [t \in Threads |-> [at |-> "idle"]]
    /\ frames = [t \in Threads |-> <<>>]
    /\ call = [fn |-> None]
    /\ clock = 0
    /\ waiter = [at |-> "idle"]

\* app.add_url_rule, as the route decorator calls it.
add_url_rule(parts, endpoint, view) ==
    /\ url_map' = url_map \cup {Rule(parts, "none", endpoint, RouteMethods)}
    /\ view_functions' =
          [e \in DOMAIN view_functions \cup {endpoint} |->
              IF e = endpoint THEN view ELSE view_functions[e]]

\* app = Flask(__name__)
CreateApp ==
    /\ pc = "app"
    /\ url_map' = {StaticRule}
    /\ view_functions' = [e \in {"static"} |-> "send_static_file"]
    /\ pc' = "route_hello"
    /\ UNCHANGED <<log, process, workers, helpers>>

\* @app.route("/") def hello
RouteHello ==
    /\ pc = "route_hello"
    /\ add_url_rule(RootPath, "hello", "hello")
    /\ pc' = "route_health"
    /\ UNCHANGED <<log, process, workers, helpers>>

\* @app.route("/health") def health
RouteHealth ==
    /\ pc = "route_health"
    /\ add_url_rule(HealthPath, "health", "health")
    /\ pc' = "route_ready"
    /\ UNCHANGED <<log, process, workers, helpers>>

\* @app.route("/ready") def ready
RouteReady ==
    /\ pc = "route_ready"
    /\ add_url_rule(ReadyPath, "ready", "ready")
    /\ pc' = "main"
    /\ UNCHANGED <<log, process, workers, helpers>>

\* if __name__ == "__main__": false when the module is imported (by the
\* tests, whose client then sends requests to the application).
Imported ==
    /\ pc = "main"
    /\ pc' = "serving"
    /\ UNCHANGED <<url_map, view_functions, log, process, workers, helpers>>

\* Handling a request that registers a route of its own on the way.
HandleRequestRegistering(request) ==
    /\ pc = "serving"
    /\ Len(log) < MaxRequests
    /\ log' = Append(log,
          [ request  |-> request,
            view     |-> ViewOf(url_map, view_functions, request),
            response |-> Dispatch(url_map, view_functions, request) ])
    /\ url_map' = url_map \cup {Rule(request.path, "none", "late", RouteMethods)}
    /\ UNCHANGED <<pc, view_functions, process, workers, helpers>>

\* The application answers one request; the client keeps the response.
HandleRequest(request) ==
    /\ pc = "serving"
    /\ Len(log) < MaxRequests
    /\ log' = Append(log,
          [ request  |-> request,
            view     |-> ViewOf(url_map, view_functions, request),
            response |-> Dispatch(url_map, view_functions, request) ])
    /\ UNCHANGED <<pc, url_map, view_functions, process, workers, helpers>>

Next ==
    \/ CreateApp
    \/ RouteHello
    \/ RouteHealth
    \/ RouteReady
    \/ Imported
    \/ \E request \in Requests : HandleRequest(request)

Spec == Init /\ [][Next]_vars

-----------------------------------------------------------------------------
(* The module run as the main program: python app.py.                      *)

Host == "0.0.0.0"
Port == 5000

Address == [host |-> Host, port |-> Port]

\* app.run(host="0.0.0.0", port=5000) when the port cannot be bound and
\* the program tries the next port instead.
BindFailsFallback ==
    /\ pc = "main"
    /\ binds' = binds \o <<Address, [host |-> Host, port |-> Port + 1]>>
    /\ listening' = {[host |-> Host, port |-> Port + 1]}
    /\ pc' = "serving"
    /\ UNCHANGED <<url_map, view_functions, log, workers, helpers>>

\* if __name__ == "__main__": app.run(host="0.0.0.0", port=5000), when
\* the address can be bound: the server listens and serves requests.
BindSucceeds ==
    /\ pc = "main"
    /\ binds' = Append(binds, Address)
    /\ listening' = {Address}
    /\ pc' = "serving"
    /\ UNCHANGED <<url_map, view_functions, log, workers, helpers>>

\* app.run(host="0.0.0.0", port=5000) when the address cannot be bound:
\* the error leaves app.run, nothing in app.py catches it, and the
\* process ends.
BindFails ==
    /\ pc = "main"
    /\ binds' = Append(binds, Address)
    /\ listening' = {}
    /\ pc' = "exited"
    /\ UNCHANGED <<url_map, view_functions, log, workers, helpers>>

NextMain ==
    \/ CreateApp
    \/ RouteHello
    \/ RouteHealth
    \/ RouteReady
    \/ BindSucceeds
    \/ BindFails
    \/ \E request \in Requests : HandleRequest(request)

allvars == <<vars, process, workers, helpers>>

SpecMain == Init /\ [][NextMain]_allvars

-----------------------------------------------------------------------------
(* What the client observed.                                               *)

Get(path) == [method |-> "GET", path |-> path]

Sent == 1..Len(log)

ProbePaths == {HealthPath, ReadyPath}

HelloBody == [message |-> "Hello from Flask on Kubernetes (Minikube)!"]

\* A 200 JSON response whose body is exactly the dict.
IsJsonOk(response, dict) ==
    /\ response.status = 200
    /\ response.content_type = "application/json"
    /\ get_json(response) = dict

\* The three anti-cache headers of a response.
CacheHeaders(response) ==
    << GetHeader(response, "Cache-Control"),
       GetHeader(response, "Pragma"),
       GetHeader(response, "Expires") >>

-----------------------------------------------------------------------------
(* C1: every GET / is answered 200, application/json, with the hello       *)
(* message as its body, whatever was served before it.                     *)
C1_RootReturnsHello ==
    \A i \in Sent :
        log[i].request = Get(RootPath) => IsJsonOk(log[i].response, HelloBody)

\* A GET / served after a request of another kind.
C1_Witness ==
    /\ Len(log) = 2
    /\ log[1].request = [method |-> "POST", path |-> ReadyPath]
    /\ log[2].request = Get(RootPath)
    /\ log[2].view = "hello"
    /\ log[2].response.status = 200

(* C2: every GET /health is answered 200, application/json, with a body    *)
(* that is exactly {"status": "healthy"}: one field and no other.          *)
C2_HealthReturnsHealthy ==
    \A i \in Sent :
        log[i].request = Get(HealthPath) =>
            /\ IsJsonOk(log[i].response, [status |-> "healthy"])
            /\ DOMAIN get_json(log[i].response) = {"status"}
            /\ Cardinality(DOMAIN get_json(log[i].response)) = 1

\* A GET /health served after a GET of an unknown path.
C2_Witness ==
    /\ Len(log) = 2
    /\ log[1].request = Get(<<"invalid">>)
    /\ log[2].request = Get(HealthPath)
    /\ log[2].view = "health"
    /\ log[2].response.data # <<>>

(* C3: every GET /ready is answered 200, application/json, with the body   *)
(* {"status": "ready"}, and the ready view never answers another status,   *)
(* whatever request it runs for.                                           *)
C3_ReadyReturnsReady ==
    \A i \in Sent :
        /\ log[i].request = Get(ReadyPath) =>
                IsJsonOk(log[i].response, [status |-> "ready"])
        /\ log[i].view = "ready" => log[i].response.status = 200

\* A GET /ready served after a GET /health.
C3_Witness ==
    /\ Len(log) = 2
    /\ log[1].request = Get(HealthPath)
    /\ log[2].request = Get(ReadyPath)
    /\ log[2].view = "ready"
    /\ get_json(log[2].response) = [status |-> "ready"]

(* C4: every 200 response to GET /health and to GET /ready carries         *)
(* Cache-Control 'no-cache, no-store, must-revalidate', Pragma 'no-cache'  *)
(* and Expires '0', and the three values of /ready are those of /health.   *)
C4_ProbeCacheHeaders ==
    /\ \A i \in Sent :
          ( /\ log[i].request \in {Get(HealthPath), Get(ReadyPath)}
            /\ log[i].response.status = 200 ) =>
          CacheHeaders(log[i].response) =
              <<"no-cache, no-store, must-revalidate", "no-cache", "0">>
    /\ \A i, j \in Sent :
          ( /\ log[i].request = Get(HealthPath)
            /\ log[j].request = Get(ReadyPath) ) =>
          CacheHeaders(log[i].response) = CacheHeaders(log[j].response)

\* A GET /ready and a GET /health, both answered 200 with Cache-Control.
C4_Witness ==
    /\ Len(log) = 2
    /\ log[1].request = Get(ReadyPath)
    /\ log[2].request = Get(HealthPath)
    /\ log[1].response.status = 200
    /\ log[2].response.status = 200
    /\ "Cache-Control" \in DOMAIN log[1].response.headers
    /\ "Cache-Control" \in DOMAIN log[2].response.headers

(* C5: a POST, PUT or DELETE to /health or /ready is answered 405 and runs *)
(* no view, while a GET of the same path is answered 200.                  *)
C5_ProbeRejectsWrites ==
    \A i \in Sent :
        log[i].request.path \in ProbePaths =>
            /\ log[i].request.method \in {"POST", "PUT", "DELETE"} =>
                  /\ log[i].response.status = 405
                  /\ log[i].view = None
            /\ log[i].request.method = "GET" =>
                  /\ log[i].response.status = 200
                  /\ log[i].view \in {"health", "ready"}

\* A DELETE /health answered 405, then a GET /health answered 200.
C5_Witness ==
    /\ Len(log) = 2
    /\ log[1].request = [method |-> "DELETE", path |-> HealthPath]
    /\ log[1].response.status = 405
    /\ log[2].request = Get(HealthPath)
    /\ log[2].response.status = 200

UnderStatic(path) == Len(path) >= 2 /\ path[1] = "static" /\ path[2] # ""

RoutePaths == {RootPath, HealthPath, ReadyPath}

(* C7, as claimed: a request to a path other than /, /health and /ready is *)
(* answered 404, whatever its method.                                      *)
C7_Original ==
    \A i \in Sent :
        log[i].request.path \notin RoutePaths => log[i].response.status = 404

(* C7, amended: a request to a path other than /, /health and /ready runs  *)
(* none of the three views and is answered 404 for every method, unless    *)
(* the path lies below /static/: there the framework's own rule for static *)
(* files applies, and GET and HEAD are answered 404 (the application has   *)
(* no static file), OPTIONS 200 and every other method 405.                *)
C7_UnknownPaths ==
    \A i \in Sent :
        LET path   == log[i].request.path
            method == log[i].request.method
            status == log[i].response.status
        IN  path \notin RoutePaths =>
            /\ log[i].view \notin {"hello", "health", "ready"}
            /\ ~UnderStatic(path) => status = 404
            /\ UnderStatic(path) =>
                  status = CASE method \in {"GET", "HEAD"} -> 404
                             [] method = "OPTIONS" -> 200
                             [] OTHER -> 405

\* An unknown path answered 404 to a POST, and /health/ answered 404 to
\* a GET.
C7_Witness ==
    /\ Len(log) = 2
    /\ log[1].request = [method |-> "POST", path |-> <<"api", "unknown">>]
    /\ log[1].response.status = 404
    /\ log[2].request = Get(<<"health", "">>)
    /\ log[2].response.status = 404

(* C8: all the GET requests to /health (and all those to /ready) that the  *)
(* client sent got the same status, the same JSON body and the same        *)
(* Cache-Control, Pragma and Expires headers, whatever was served between  *)
(* them.                                                                   *)
C8_ProbeResponsesIdentical ==
    \A i, j \in Sent :
        ( /\ log[i].request.method = "GET"
          /\ log[i].request.path \in ProbePaths
          /\ log[j].request = log[i].request ) =>
        /\ log[i].response.status = log[j].response.status
        /\ log[i].response.data = log[j].response.data
        /\ log[i].response.content_type = log[j].response.content_type
        /\ CacheHeaders(log[i].response) = CacheHeaders(log[j].response)

\* Two GET /health in a row, both answered.
C8_Witness ==
    /\ Len(log) = 2
    /\ log[1].request = Get(HealthPath)
    /\ log[2].request = Get(HealthPath)
    /\ log[1].view = "health"
    /\ log[2].view = "health"

\* The rules app.py registers, with the rule of the static folder.
RegisteredRules ==
    { StaticRule,
      Rule(RootPath, "none", "hello", {"GET", "HEAD", "OPTIONS"}),
      Rule(HealthPath, "none", "health", {"GET", "HEAD", "OPTIONS"}),
      Rule(ReadyPath, "none", "ready", {"GET", "HEAD", "OPTIONS"}) }

(* C9: a request to /health or /ready changes no application state: a GET  *)
(* / sent after it is answered 200 with the hello message, a GET /health   *)
(* sent after it is answered 200 {"status": "healthy"}, and the registered *)
(* routes and their views are those app.py registered.                     *)
C9_ProbesLeaveNoTrace ==
    /\ \A i, j \in Sent :
          ( i < j /\ log[i].request.path \in ProbePaths ) =>
          /\ log[j].request = Get(RootPath) =>
                IsJsonOk(log[j].response, HelloBody)
          /\ log[j].request = Get(HealthPath) =>
                IsJsonOk(log[j].response, [status |-> "healthy"])
    /\ (\E i \in Sent : log[i].request.path \in ProbePaths) =>
          /\ url_map = RegisteredRules
          /\ view_functions = [e \in {"static", "hello", "health", "ready"} |->
                                 IF e = "static" THEN "send_static_file" ELSE e]

\* A GET / served after a GET /ready that ran the ready view.
C9_Witness ==
    /\ Len(log) = 2
    /\ log[1].request = Get(ReadyPath)
    /\ log[1].view = "ready"
    /\ log[2].request = Get(RootPath)
    /\ log[2].response.status = 200

(* C10: the JSON bodies that GET /, GET /health and GET /ready return are  *)
(* pairwise different.                                                     *)
C10_BodiesPairwiseDifferent ==
    \A i, j \in Sent :
        ( /\ log[i].request.method = "GET"
          /\ log[j].request.method = "GET"
          /\ log[i].request.path \in RoutePaths
          /\ log[j].request.path \in RoutePaths
          /\ log[i].request.path # log[j].request.path ) =>
        /\ log[i].response.data # log[j].response.data
        /\ log[i].response.content_type = "application/json"
        /\ log[j].response.content_type = "application/json"
        /\ get_json(log[i].response) # get_json(log[j].response)

\* A GET /health and a GET /ready, both answered with a JSON body.
C10_Witness ==
    /\ Len(log) = 2
    /\ log[1].request = Get(HealthPath)
    /\ log[2].request = Get(ReadyPath)
    /\ log[1].response.data # <<>>
    /\ log[2].response.data # <<>>
    /\ log[1].response.content_type = "application/json"

-----------------------------------------------------------------------------
(* Requests handled by several threads at once. Each thread takes one     *)
(* request, finds its view, runs the view a statement at a time, and sends *)
(* the response. The local variable 'response' of a running view lives in *)
(* the frame of its call.                                                  *)

\* The requests the threads handle: reads and a write, of the three
\* routes, of an unknown path and of a static file.
ThreadRequests ==
    [ method : {"GET", "HEAD", "POST"},
      path   : {RootPath, HealthPath, ReadyPath, <<"invalid">>,
                <<"static", "app.css">>} ]

\* The statements of each view, in order.
ViewCode(view) ==
    CASE view = "hello" ->
           << [op |-> "return_jsonify",
               kwargs |-> [message |-> "Hello from Flask on Kubernetes (Minikube)!"]] >>
      [] view = "health" ->
           << [op |-> "jsonify", kwargs |-> [status |-> "healthy"]],
              [op |-> "header", name |-> "Cache-Control",
               value |-> "no-cache, no-store, must-revalidate"],
              [op |-> "header", name |-> "Pragma", value |-> "no-cache"],
              [op |-> "header", name |-> "Expires", value |-> "0"],
              [op |-> "return", status |-> 200] >>
      [] view = "ready" ->
           << [op |-> "jsonify", kwargs |-> [status |-> "ready"]],
              [op |-> "header", name |-> "Cache-Control",
               value |-> "no-cache, no-store, must-revalidate"],
              [op |-> "header", name |-> "Pragma", value |-> "no-cache"],
              [op |-> "header", name |-> "Expires", value |-> "0"],
              [op |-> "return", status |-> 200] >>
      [] OTHER -> << [op |-> "call", view |-> view] >>

\* One variable 'response' for the whole module, which every call of a
\* view shares.
ResponseSlotShared(t) == 1

\* Where the variable 'response' of the view that thread t runs lives: in
\* the frame of that call, one per thread.
ResponseSlot(t) == t

\* A thread takes a request off the listening socket.
Accept(t, request) ==
    /\ pc = "serving"
    /\ threads[t].at = "idle"
    /\ threads' = [threads EXCEPT ![t] = [at |-> "dispatch", request |-> request]]
    /\ UNCHANGED <<vars, process, frames, helpers>>

\* The framework matches the request: it answers itself when no view is
\* to run, and calls the view otherwise.
FindView(t) ==
    /\ threads[t].at = "dispatch"
    /\ LET request == threads[t].request
           view    == ViewOf(url_map, view_functions, request)
       IN  threads' = [threads EXCEPT ![t] =
             IF view = None
             THEN [ at |-> "done", request |-> request, view |-> view,
                    sent |-> Dispatch(url_map, view_functions, request) ]
             ELSE [ at |-> "view", request |-> request, view |-> view, line |-> 1 ]]
    /\ UNCHANGED <<vars, process, frames, helpers>>

\* The view a thread runs executes its next statement.
ViewStep(t) ==
    /\ threads[t].at = "view"
    /\ LET me   == threads[t]
           stmt == ViewCode(me.view)[me.line]
           slot == ResponseSlot(t)
       IN  CASE stmt.op = "jsonify" ->
                  /\ frames' = [frames EXCEPT ![slot] = <<jsonify(stmt.kwargs)>>]
                  /\ threads' = [threads EXCEPT ![t].line = me.line + 1]
             [] stmt.op = "header" ->
                  /\ frames' = [frames EXCEPT ![slot] =
                        <<SetHeader(frames[slot][1], stmt.name, stmt.value)>>]
                  /\ threads' = [threads EXCEPT ![t].line = me.line + 1]
             [] stmt.op = "return" ->
                  /\ threads' = [threads EXCEPT ![t] =
                        [ at |-> "returned", request |-> me.request, view |-> me.view,
                          rv |-> <<frames[slot][1], stmt.status>> ]]
                  /\ UNCHANGED frames
             [] stmt.op = "return_jsonify" ->
                  /\ threads' = [threads EXCEPT ![t] =
                        [ at |-> "returned", request |-> me.request, view |-> me.view,
                          rv |-> <<jsonify(stmt.kwargs)>> ]]
                  /\ UNCHANGED frames
             [] OTHER ->
                  /\ threads' = [threads EXCEPT ![t] =
                        [ at |-> "returned", request |-> me.request, view |-> me.view,
                          rv |-> CallView(me.view, me.request.path) ]]
                  /\ UNCHANGED frames
    /\ UNCHANGED <<vars, process, helpers>>

\* The framework makes the response of what the view returned and sends
\* it, without its body when the request is a HEAD.
Send(t) ==
    /\ threads[t].at = "returned"
    /\ LET me   == threads[t]
           full == make_response(me.rv)
       IN  threads' = [threads EXCEPT ![t] =
             [ at |-> "done", request |-> me.request, view |-> me.view,
               sent |-> IF me.request.method = "HEAD"
                        THEN [full EXCEPT !.data = <<>>] ELSE full ]]
    /\ UNCHANGED <<vars, process, frames, helpers>>

NextThreads ==
    \/ CreateApp
    \/ RouteHello
    \/ RouteHealth
    \/ RouteReady
    \/ BindSucceeds
    \/ BindFails
    \/ \E t \in Threads : \E request \in ThreadRequests : Accept(t, request)
    \/ \E t \in Threads : FindView(t)
    \/ \E t \in Threads : ViewStep(t)
    \/ \E t \in Threads : Send(t)

SpecThreads == Init /\ [][NextThreads]_allvars

\* The response a view has built after its first n statements, run alone.
RECURSIVE BuiltAlone(_, _)
BuiltAlone(view, n) ==
    IF n = 0 THEN <<>>
    ELSE LET stmt == ViewCode(view)[n]
             before == BuiltAlone(view, n - 1)
         IN  CASE stmt.op = "jsonify" -> <<jsonify(stmt.kwargs)>>
               [] stmt.op = "header" ->
                    <<SetHeader(before[1], stmt.name, stmt.value)>>
               [] OTHER -> before

(* C11: whatever the interleaving of the threads' steps, every request is  *)
(* sent the response it gets when it is handled alone, and the response a  *)
(* running view has built so far is the one its own statements built:      *)
(* nothing of another request's response is in it.                         *)
C11_ConcurrentRequestsIsolated ==
    \A t \in Threads :
        /\ threads[t].at = "done" =>
              threads[t].sent =
                  Dispatch(url_map, view_functions, threads[t].request)
        /\ (threads[t].at = "view" /\ threads[t].line > 1) =>
              frames[ResponseSlot(t)] =
                  BuiltAlone(threads[t].view, threads[t].line - 1)

\* Two requests in flight at once: thread 1 is about to return from
\* health and thread 2 from ready, each with the response it built.
C11_Witness ==
    /\ threads[1].at = "view"
    /\ threads[1].view = "health"
    /\ threads[1].line = 5
    /\ threads[2].at = "view"
    /\ threads[2].view = "ready"
    /\ threads[2].line = 5
    /\ frames[1] # frames[2]
    /\ "Expires" \in DOMAIN frames[1][1].headers
    /\ "Expires" \in DOMAIN frames[2][1].headers

-----------------------------------------------------------------------------
RegisteredViews ==
    [e \in {"static", "hello", "health", "ready"} |->
        IF e = "static" THEN "send_static_file" ELSE e]

(* C12, as claimed: when requests are served the route table holds exactly *)
(* the three routes /, /health and /ready.                                 *)
C12_Original ==
    pc = "serving" =>
        /\ { r.parts : r \in url_map } = RoutePaths
        /\ Cardinality(url_map) = 3

(* C12, amended: the route table is built once, a rule at a time, while    *)
(* the module is loaded; when the listener starts and whenever requests    *)
(* are served it holds the three routes /, /health and /ready and, with    *)
(* them, the framework's rule for static files, /static/<path:filename>;   *)
(* and no step taken while requests are served changes it.                 *)
C12_RouteTableFixed ==
    /\ []( (pc = "serving" \/ listening # {} \/ log # <<>>) =>
              /\ url_map = RegisteredRules
              /\ view_functions = RegisteredViews )
    /\ [][ /\ url_map \subseteq url_map'
           /\ Cardinality(url_map') <= Cardinality(url_map) + 1
           /\ (pc = "serving" \/ listening # {}) =>
                 /\ url_map' = url_map
                 /\ view_functions' = view_functions ]_allvars

\* The server listens, has served two requests, and the table is whole.
C12_Witness ==
    /\ listening = {Address}
    /\ pc = "serving"
    /\ Len(log) = 2
    /\ Cardinality(url_map) = 4
    /\ { r.parts : r \in url_map } = RoutePaths \cup {<<"static">>}

(* C13: run as the main program, the process tries to bind 0.0.0.0:5000,   *)
(* once; if that fails the process ends, having bound no other address and *)
(* served no request, and takes no further step (no retry); requests are   *)
(* served only while it listens on 0.0.0.0:5000.                           *)
C13_BindFailureIsFatal ==
    /\ Len(binds) <= 1
    /\ \A i \in 1..Len(binds) : binds[i] = [host |-> "0.0.0.0", port |-> 5000]
    /\ pc = "exited" =>
          /\ Len(binds) = 1
          /\ listening = {}
          /\ log = <<>>
          /\ ~ENABLED NextMain
    /\ (pc = "serving" \/ log # <<>>) =>
          listening = {[host |-> "0.0.0.0", port |-> 5000]}

\* The bind of 0.0.0.0:5000 failed and the process has ended.
C13_Witness ==
    /\ pc = "exited"
    /\ binds = <<[host |-> "0.0.0.0", port |-> 5000]>>
    /\ listening = {}

(* C14: the response to GET / carries no Cache-Control, no Pragma and no   *)
(* Expires header.                                                         *)
C14_RootSetsNoCacheHeaders ==
    \A i \in Sent :
        log[i].request = Get(RootPath) =>
            /\ log[i].view = "hello"
            /\ DOMAIN log[i].response.headers
                  \cap {"Cache-Control", "Pragma", "Expires"} = {}
            /\ CacheHeaders(log[i].response) = <<None, None, None>>

\* A GET / answered 200 after a GET /health that carries Cache-Control.
C14_Witness ==
    /\ Len(log) = 2
    /\ log[1].request = Get(HealthPath)
    /\ "Cache-Control" \in DOMAIN log[1].response.headers
    /\ log[2].request = Get(RootPath)
    /\ log[2].response.status = 200
    /\ log[2].response.headers = [h \in {} |-> ""]

-----------------------------------------------------------------------------
(* The kubectl helpers of test_k8s/utils.py. A helper runs one kubectl     *)
(* command; what the command answers (exit code, stdout, stderr) is the    *)
(* cluster's choice. The JSON text that kubectl -o json prints is held as  *)
(* [json |-> document]; a document is a function from its keys, a JSON     *)
(* list a sequence.                                                        *)

\* How many pods a listing holds at most.
MaxPods == 2

EmptyDict == [k \in {} |-> ""]

\* dict.get(key, default)
dict_get(d, key, default) == IF key \in DOMAIN d THEN d[key] ELSE default

\* json.loads(text)
json_loads(text) == text.json

\* The containerStatuses of a pod, as the cluster reports them.
ContainerStatusLists ==
    { <<>>,
      << [ready |-> TRUE, restartCount |-> 0] >>,
      << [ready |-> TRUE, restartCount |-> 2], [ready |-> FALSE, restartCount |-> 5] >>,
      << [restartCount |-> 1] >>,
      << [ready |-> TRUE], [ready |-> TRUE, restartCount |-> 3] >>,
      << [ready |-> FALSE, restartCount |-> 4], [ready |-> TRUE, restartCount |-> 1] >>,
      << [ready |-> TRUE, restartCount |-> 1], [ready |-> TRUE, restartCount |-> 7] >> }

Phases == {"Running", "Pending", "Succeeded", "Failed"}

\* The pods of the cluster: a phase, and container statuses or none yet.
Pods ==
    { [ metadata |-> [name |-> "hello-flask-a"],
        status   |-> [phase |-> ph] ] : ph \in Phases }
    \cup
    { [ metadata |-> [name |-> "hello-flask-a"],
        status   |-> [phase |-> ph, containerStatuses |-> cs] ] :
          ph \in Phases, cs \in ContainerStatusLists }

PodLists == UNION { [1..n -> Pods] : n \in 0..MaxPods }

\* What kubectl prints for a listing: a List with its items, or without.
PodListTexts ==
    { [json |-> [kind |-> "List", items |-> l]] : l \in PodLists }
    \cup { [json |-> [kind |-> "List"]] }

PodTexts == { [json |-> pod] : pod \in Pods }

ObjectTexts ==
    { [json |-> [kind |-> "Deployment", spec |-> [replicas |-> 2]]],
      [json |-> [kind |-> "Service", spec |-> [type |-> "NodePort"]]],
      [json |-> [kind |-> "Ingress", spec |-> [rules |-> <<>>]]] }

LogTexts == { "", " * Running on all addresses (0.0.0.0)" }

\* What a command answers: its exit code, what it printed, its errors.
Replies(texts) ==
    [ returncode : {0, 1, 2}, stdout : texts, stderr : {"", "Error from server"} ]

PodNames == {"hello-flask-a", "hello-flask-b"}
Namespaces == {"default", "staging"}

\* What a call of a helper ends in: a value, None, or KubectlError. cmd
\* is the command the helper ran.
Returned(cmd, value) ==
    [kind |-> "return", is_none |-> FALSE, value |-> value, cmd |-> cmd]

ReturnedNone(cmd) == [kind |-> "return", is_none |-> TRUE, cmd |-> cmd]

Raised(cmd, returncode, stderr) ==
    [ kind |-> "raise", exception |-> "KubectlError", cmd |-> cmd,
      returncode |-> returncode, stderr |-> stderr ]

\* run_kubectl raising on every failed command, whatever check says.
run_kubectl_always_checks(args, check, use_minikube, proc) ==
    LET cmd == IF use_minikube THEN <<"minikube", "kubectl", "--">> \o args
               ELSE <<"kubectl">> \o args
        result == [ args |-> cmd, returncode |-> proc.returncode,
                    stdout |-> proc.stdout, stderr |-> proc.stderr ]
    IN  IF result.returncode # 0
        THEN Raised(cmd, result.returncode, result.stderr)
        ELSE Returned(cmd, result)

\* run_kubectl(*args, check, use_minikube); proc is what subprocess.run
\* answers.
run_kubectl(args, check, use_minikube, proc) ==
    LET cmd == IF use_minikube THEN <<"minikube", "kubectl", "--">> \o args
               ELSE <<"kubectl">> \o args
        result == [ args |-> cmd, returncode |-> proc.returncode,
                    stdout |-> proc.stdout, stderr |-> proc.stderr ]
    IN  IF check /\ result.returncode # 0
        THEN Raised(cmd, result.returncode, result.stderr)
        ELSE Returned(cmd, result)

\* exec_in_pod(pod_name, command, namespace, check)
exec_in_pod(pod_name, command, namespace, check, proc) ==
    run_kubectl(<<"exec", pod_name, "-n", namespace, "--">> \o command,
                check, FALSE, proc)

\* get_pods where a failed listing counts as no pods.
get_pods_unchecked(label_selector, namespace, proc) ==
    LET r == run_kubectl(<<"get", "pods", "-l", label_selector, "-n", namespace,
                           "-o", "json">>, FALSE, FALSE, proc)
    IN  IF r.value.returncode # 0 THEN Returned(r.cmd, <<>>)
        ELSE Returned(r.cmd, dict_get(json_loads(r.value.stdout), "items", <<>>))

\* get_pods(label_selector, namespace)
get_pods(label_selector, namespace, proc) ==
    LET r == run_kubectl(<<"get", "pods", "-l", label_selector, "-n", namespace,
                           "-o", "json">>, TRUE, FALSE, proc)
    IN  IF r.kind = "raise" THEN r
        ELSE Returned(r.cmd, dict_get(json_loads(r.value.stdout), "items", <<>>))

\* The body that get_pod_by_name, get_deployment, get_service and
\* get_ingress share: kubectl get <kind> <name> -n <namespace> -o json
\* with check=False, None when it fails and the parsed reply otherwise.
get_object(kind, name, namespace, proc) ==
    LET r == run_kubectl(<<"get", kind, name, "-n", namespace, "-o", "json">>,
                         FALSE, FALSE, proc)
    IN  IF r.kind = "raise" THEN r
        ELSE IF r.value.returncode # 0 THEN ReturnedNone(r.cmd)
        ELSE Returned(r.cmd, json_loads(r.value.stdout))

get_pod_by_name(pod_name, namespace, proc) ==
    get_object("pod", pod_name, namespace, proc)

get_deployment(name, namespace, proc) ==
    get_object("deployment", name, namespace, proc)

get_service(name, namespace, proc) ==
    get_object("service", name, namespace, proc)

\* get_ingress run with check=True.
get_ingress_checked(name, namespace, proc) ==
    LET r == run_kubectl(<<"get", "ingress", name, "-n", namespace, "-o", "json">>,
                         TRUE, FALSE, proc)
    IN  IF r.kind = "raise" THEN r
        ELSE IF r.value.returncode # 0 THEN ReturnedNone(r.cmd)
        ELSE Returned(r.cmd, json_loads(r.value.stdout))

get_ingress(name, namespace, proc) ==
    get_object("ingress", name, namespace, proc)

\* delete_pod(pod_name, namespace, wait)
delete_pod(pod_name, namespace, wait, proc) ==
    LET wait_arg == IF wait THEN "true" ELSE "false"
        r == run_kubectl(<<"delete", "pod", pod_name, "-n", namespace,
                           "--wait=" \o wait_arg>>, FALSE, FALSE, proc)
    IN  IF r.kind = "raise" THEN r
        ELSE Returned(r.cmd, r.value.returncode = 0)

\* A tail argument: <<>> for None, <<n>> for the number n.
Tails == {<<>>, <<0>>, <<1>>, <<50>>}

\* get_pod_logs(pod_name, namespace, tail); 'if tail:' is false for None
\* and for 0.
get_pod_logs(pod_name, namespace, tail, proc) ==
    LET args == <<"logs", pod_name, "-n", namespace>>
                  \o IF tail # <<>> /\ tail[1] # 0
                     THEN <<"--tail", ToString(tail[1])>> ELSE <<>>
        r == run_kubectl(args, FALSE, FALSE, proc)
    IN  IF r.kind = "raise" THEN r
        ELSE IF r.value.returncode # 0 THEN ReturnedNone(r.cmd)
        ELSE Returned(r.cmd, r.value.stdout)

\* all(cs.get("ready", True) for cs in statuses): a status that does not
\* say counts as ready.
all_ready_by_default(statuses) ==
    \A i \in 1..Len(statuses) : dict_get(statuses[i], "ready", TRUE)

\* all(cs.get("ready", False) for cs in statuses)
all_ready(statuses) ==
    \A i \in 1..Len(statuses) : dict_get(statuses[i], "ready", FALSE)

\* The list comprehension of get_running_pods.
RECURSIVE running_and_ready(_)
running_and_ready(pods) ==
    IF pods = <<>> THEN <<>>
    ELSE LET pod == Head(pods)
             keep == /\ pod["status"]["phase"] = "Running"
                     /\ all_ready(dict_get(pod["status"], "containerStatuses", <<>>))
         IN  (IF keep THEN <<pod>> ELSE <<>>) \o running_and_ready(Tail(pods))

\* get_running_pods(label_selector, namespace)
get_running_pods(label_selector, namespace, proc) ==
    LET pods == get_pods(label_selector, namespace, proc)
    IN  IF pods.kind = "raise" THEN pods
        ELSE Returned(pods.cmd, running_and_ready(pods.value))

\* get_pod_restart_count reading the last container instead of the first.
get_pod_restart_count_last(pod_name, namespace, proc) ==
    LET pod == get_pod_by_name(pod_name, namespace, proc)
    IN  IF pod.kind = "raise" THEN pod
        ELSE IF pod.is_none \/ DOMAIN pod.value = {} THEN ReturnedNone(pod.cmd)
        ELSE LET container_statuses ==
                     dict_get(dict_get(pod.value, "status", EmptyDict),
                              "containerStatuses", <<>>)
             IN  IF container_statuses = <<>> THEN Returned(pod.cmd, 0)
                 ELSE Returned(pod.cmd,
                               dict_get(container_statuses[Len(container_statuses)],
                                        "restartCount", 0))

\* get_pod_restart_count(pod_name, namespace); 'not pod' holds for None
\* and for an empty document.
get_pod_restart_count(pod_name, namespace, proc) ==
    LET pod == get_pod_by_name(pod_name, namespace, proc)
    IN  IF pod.kind = "raise" THEN pod
        ELSE IF pod.is_none \/ DOMAIN pod.value = {} THEN ReturnedNone(pod.cmd)
        ELSE LET container_statuses ==
                     dict_get(dict_get(pod.value, "status", EmptyDict),
                              "containerStatuses", <<>>)
             IN  IF container_statuses = <<>> THEN Returned(pod.cmd, 0)
                 ELSE Returned(pod.cmd,
                               dict_get(container_statuses[1], "restartCount", 0))

\* The commands a test hands to run_kubectl and to exec_in_pod.
KubectlArgs == { <<"version">>, <<"get", "pods">>, <<"rollout", "status", "deployment/hello-flask">> }
PodCommands == { <<"env">>, <<"cat", "/etc/hostname">> }
LabelSelector == "app=hello-flask"

\* A test calls one helper and gets what it ends in; Returns hands the
\* result to the test, which may then call the next helper.
Idle == call.fn = None

Calls(fn, args, proc, outcome) ==
    /\ call' = [fn |-> fn, args |-> args, proc |-> proc, outcome |-> outcome]
    /\ UNCHANGED <<vars, process, workers, clock, waiter>>

Call_run_kubectl ==
    /\ Idle
    /\ \E args \in KubectlArgs, check \in BOOLEAN, use_minikube \in BOOLEAN,
       proc \in Replies(LogTexts) :
        Calls("run_kubectl",
              [args |-> args, check |-> check, use_minikube |-> use_minikube],
              proc, run_kubectl(args, check, use_minikube, proc))

Call_exec_in_pod ==
    /\ Idle
    /\ \E pod_name \in PodNames, command \in PodCommands, check \in BOOLEAN,
       proc \in Replies(LogTexts) :
        Calls("exec_in_pod",
              [pod_name |-> pod_name, command |-> command, check |-> check],
              proc, exec_in_pod(pod_name, command, "default", check, proc))

Call_get_pods ==
    /\ Idle
    /\ \E proc \in Replies(PodListTexts) :
        Calls("get_pods", [namespace |-> "default"], proc,
              get_pods(LabelSelector, "default", proc))

Call_get_pod_by_name ==
    /\ Idle
    /\ \E pod_name \in PodNames, namespace \in Namespaces, proc \in Replies(PodTexts) :
        Calls("get_pod_by_name", [name |-> pod_name, namespace |-> namespace],
              proc, get_pod_by_name(pod_name, namespace, proc))

Call_get_deployment ==
    /\ Idle
    /\ \E namespace \in Namespaces, proc \in Replies(ObjectTexts) :
        Calls("get_deployment", [name |-> "hello-flask", namespace |-> namespace],
              proc, get_deployment("hello-flask", namespace, proc))

Call_get_service ==
    /\ Idle
    /\ \E namespace \in Namespaces, proc \in Replies(ObjectTexts) :
        Calls("get_service", [name |-> "hello-flask", namespace |-> namespace],
              proc, get_service("hello-flask", namespace, proc))

Call_get_ingress ==
    /\ Idle
    /\ \E namespace \in Namespaces, proc \in Replies(ObjectTexts) :
        Calls("get_ingress", [name |-> "hello-flask-ingress", namespace |-> namespace],
              proc, get_ingress("hello-flask-ingress", namespace, proc))

Call_delete_pod ==
    /\ Idle
    /\ \E pod_name \in PodNames, wait \in BOOLEAN, proc \in Replies(LogTexts) :
        Calls("delete_pod", [name |-> pod_name, wait |-> wait], proc,
              delete_pod(pod_name, "default", wait, proc))

Call_get_pod_logs ==
    /\ Idle
    /\ \E pod_name \in PodNames, tail \in Tails, proc \in Replies(LogTexts) :
        Calls("get_pod_logs", [name |-> pod_name, tail |-> tail], proc,
              get_pod_logs(pod_name, "default", tail, proc))

Call_get_running_pods ==
    /\ Idle
    /\ \E proc \in Replies(PodListTexts) :
        Calls("get_running_pods", [namespace |-> "default"], proc,
              get_running_pods(LabelSelector, "default", proc))

Call_get_pod_restart_count ==
    /\ Idle
    /\ \E pod_name \in PodNames, proc \in Replies(PodTexts) :
        Calls("get_pod_restart_count", [name |-> pod_name], proc,
              get_pod_restart_count(pod_name, "default", proc))

\* str.strip() of what printenv prints: the value without its newline.
strip(text) ==
    IF text # <<>> /\ text[Len(text)] = "\n" THEN SubSeq(text, 1, Len(text) - 1)
    ELSE text

\* expected_env_vars of test_pods_have_config_environment_available, in
\* the order of the dict.
ExpectedEnvVars ==
    << [name |-> "APP_ENV", value |-> "local"],
       [name |-> "LOG_LEVEL", value |-> "debug"],
       [name |-> "API_KEY", value |-> "somesecretkey"],
       [name |-> "DB_PASSWORD", value |-> "password123"],
       [name |-> "CUSTOM_MESSAGE", value |-> "Deployed via ConfigMap + Secret"] >>

EnvVarNames == { ExpectedEnvVars[i].name : i \in 1..Len(ExpectedEnvVars) }

\* What printenv answers in the pod for a variable: its value, another
\* value, or nothing and exit code 1 when the variable is not set.
PrintenvReplies(expected) ==
    { [returncode |-> 0, stdout |-> <<expected, "\n">>, stderr |-> ""],
      [returncode |-> 0, stdout |-> <<"production", "\n">>, stderr |-> ""],
      [returncode |-> 1, stdout |-> <<>>, stderr |-> ""] }

\* The pod's environment: what printenv answers for each variable.
PodEnvironments ==
    { env \in [EnvVarNames -> UNION { PrintenvReplies(ExpectedEnvVars[i].value) :
                                        i \in 1..Len(ExpectedEnvVars) }] :
        \A i \in 1..Len(ExpectedEnvVars) :
            env[ExpectedEnvVars[i].name] \in PrintenvReplies(ExpectedEnvVars[i].value) }

\* The for loop of test_pods_have_config_environment_available from its
\* i-th variable on, and the two assertions after it. exec_in_pod is
\* called with its default check=True.
RECURSIVE check_env_vars(_, _, _, _, _)
check_env_vars(pod_name, env, i, missing_vars, incorrect_vars) ==
    IF i > Len(ExpectedEnvVars)
    THEN IF Len(missing_vars) # 0
         THEN [kind |-> "failed", assertion |-> "Missing environment variables",
               listed |-> missing_vars]
         ELSE IF Len(incorrect_vars) # 0
         THEN [kind |-> "failed", assertion |-> "Incorrect values",
               listed |-> incorrect_vars]
         ELSE [kind |-> "passed"]
    ELSE LET env_var == ExpectedEnvVars[i].name
             expected_value == ExpectedEnvVars[i].value
             result == exec_in_pod(pod_name, <<"printenv", env_var>>, "default",
                                   TRUE, env[env_var])
         IN  IF result.kind = "raise"
             THEN [kind |-> "error", exception |-> result.exception,
                   at |-> env_var, missing_vars |-> missing_vars]
             ELSE IF result.value.returncode # 0
             THEN check_env_vars(pod_name, env, i + 1,
                                 Append(missing_vars, env_var), incorrect_vars)
             ELSE IF strip(result.value.stdout) # <<expected_value>>
             THEN check_env_vars(pod_name, env, i + 1, missing_vars,
                                 Append(incorrect_vars, env_var))
             ELSE check_env_vars(pod_name, env, i + 1, missing_vars, incorrect_vars)

\* test_pods_have_config_environment_available(pods), for the first pod
\* of the pods fixture.
test_pods_have_config_environment_available(pod_name, env) ==
    check_env_vars(pod_name, env, 1, <<>>, <<>>)

Call_test_pods_have_config_environment_available ==
    /\ Idle
    /\ \E pod_name \in PodNames, env \in PodEnvironments :
        Calls("test_pods_have_config_environment_available",
              [pod_name |-> pod_name], env,
              test_pods_have_config_environment_available(pod_name, env))

\* Host names and addresses are held as their dot-separated parts, and a
\* URL as its scheme followed by them.
IngressHosts == { <<"hello-flask", "local">>, <<"app", "example", "test">> }
MinikubeIP == <<"192", "168", "49", "2">>

\* The Ingress the cluster holds: without spec, without rules, with no
\* rule, with a rule that names no host, with one or two rules with hosts.
Ingresses ==
    { [kind |-> "Ingress"],
      [kind |-> "Ingress", spec |-> [ingressClassName |-> "nginx"]],
      [kind |-> "Ingress", spec |-> [rules |-> <<>>]],
      [kind |-> "Ingress", spec |-> [rules |-> << [http |-> "paths"] >>]] }
    \cup
    { [kind |-> "Ingress", spec |-> [rules |-> << [host |-> h, http |-> "paths"] >>]] :
        h \in IngressHosts }
    \cup
    { [kind |-> "Ingress",
       spec |-> [rules |-> << [host |-> h, http |-> "paths"],
                              [host |-> <<"other", "local">>, http |-> "paths"] >>]] :
        h \in IngressHosts }

\* What os.getenv gives for CI and for GITHUB_ACTIONS.
EnvValues == {None, "true", "false"}

\* What 'minikube ip' answers: the address, nothing, or a failure with
\* or without a message on stdout.
MinikubeReplies ==
    { [returncode |-> 0, stdout |-> MinikubeIP \o <<"\n">>, stderr |-> ""],
      [returncode |-> 0, stdout |-> <<>>, stderr |-> ""],
      [returncode |-> 1, stdout |-> <<>>, stderr |-> "minikube is not running"],
      [returncode |-> 1, stdout |-> <<"Profile minikube not found", "\n">>,
       stderr |-> ""] }

\* is_ci_environment()
is_ci_environment(environ) ==
    environ.CI = "true" \/ environ.GITHUB_ACTIONS = "true"

\* get_minikube_ip taking whatever 'minikube ip' printed, failed or not.
get_minikube_ip_unchecked(proc) ==
    [is_none |-> FALSE, value |-> strip(proc.stdout)]

\* get_minikube_ip()
get_minikube_ip(proc) ==
    IF proc.returncode # 0 THEN [is_none |-> TRUE]
    ELSE [is_none |-> FALSE, value |-> strip(proc.stdout)]

\* f"http://{host}"
http_url(host) == <<"http://">> \o host

\* str.endswith
endswith(text, suffix) ==
    /\ Len(suffix) <= Len(text)
    /\ SubSeq(text, Len(text) - Len(suffix) + 1, Len(text)) = suffix

\* get_ingress_url_and_host(ingress): the pair (url, host_header), or
\* (None, None).
get_ingress_url_and_host(ingress, environ, proc) ==
    LET rules == dict_get(dict_get(ingress, "spec", EmptyDict), "rules", <<>>)
    IN  IF rules = <<>> THEN [is_none |-> TRUE]
        ELSE LET ingress_host == dict_get(rules[1], "host", <<"hello-flask", "local">>)
                 minikube_ip == get_minikube_ip(proc)
             IN  IF /\ is_ci_environment(environ)
                    /\ ~minikube_ip.is_none
                    /\ minikube_ip.value # <<>>
                 THEN [ is_none |-> FALSE, url |-> http_url(minikube_ip.value),
                        host_header |-> ingress_host ]
                 ELSE [ is_none |-> FALSE, url |-> http_url(ingress_host),
                        host_header |-> ingress_host ]

\* test_ingress_service_reachable from its call of
\* get_ingress_url_and_host to its requests.get: the assertion on url,
\* then the headers of the request.
test_ingress_service_reachable(ingress, environ, proc) ==
    LET pair == get_ingress_url_and_host(ingress, environ, proc)
    IN  IF pair.is_none
        THEN [kind |-> "failed", assertion |-> "No valid Ingress URL", pair |-> pair]
        ELSE [ kind |-> "request", pair |-> pair, url |-> pair.url,
               headers |-> IF pair.host_header # <<>>
                              /\ ~endswith(pair.url, pair.host_header)
                           THEN [Host |-> pair.host_header]
                           ELSE EmptyDict ]

Call_test_ingress_service_reachable ==
    /\ Idle
    /\ \E ingress \in Ingresses, CI \in EnvValues, GITHUB_ACTIONS \in EnvValues,
          proc \in MinikubeReplies :
        Calls("test_ingress_service_reachable",
              [ ingress |-> ingress,
                environ |-> [CI |-> CI, GITHUB_ACTIONS |-> GITHUB_ACTIONS] ],
              proc,
              test_ingress_service_reachable(
                  ingress, [CI |-> CI, GITHUB_ACTIONS |-> GITHUB_ACTIONS], proc))

Returns ==
    /\ call.fn # None
    /\ call' = [fn |-> None]
    /\ UNCHANGED <<vars, process, workers, clock, waiter>>

NextKubectl ==
    \/ Call_run_kubectl
    \/ Call_exec_in_pod
    \/ Call_get_pods
    \/ Call_get_pod_by_name
    \/ Call_get_deployment
    \/ Call_get_service
    \/ Call_get_ingress
    \/ Call_delete_pod
    \/ Call_get_pod_logs
    \/ Call_get_running_pods
    \/ Call_get_pod_restart_count
    \/ Call_test_pods_have_config_environment_available
    \/ Call_test_ingress_service_reachable
    \/ Returns

SpecKubectl == Init /\ [][NextKubectl]_allvars

\* The helper that has been called, and how the call went.
Called(fn) == call.fn = fn
Failed == call.proc.returncode # 0
RaisedKubectlError == call.outcome.kind = "raise" /\ call.outcome.exception = "KubectlError"
ReturnedValue == call.outcome.kind = "return" /\ ~call.outcome.is_none
ReturnedNoValue == call.outcome.kind = "return" /\ call.outcome.is_none

\* C16: run_kubectl (and exec_in_pod, which passes check through) raises
\* KubectlError exactly when check is true and the exit code is not zero;
\* in every other case it returns the completed process with the
\* command's exit code, stdout and stderr unchanged.
C16_RunKubectlRaisesIffCheckedFailure ==
    (Called("run_kubectl") \/ Called("exec_in_pod")) =>
        /\ RaisedKubectlError <=> (call.args.check /\ Failed)
        /\ ~RaisedKubectlError =>
              /\ ReturnedValue
              /\ call.outcome.value.returncode = call.proc.returncode
              /\ call.outcome.value.stdout = call.proc.stdout
              /\ call.outcome.value.stderr = call.proc.stderr

\* run_kubectl with check=False has returned a failed command's result.
C16_Witness ==
    /\ Called("run_kubectl")
    /\ ~call.args.check
    /\ Failed
    /\ ReturnedValue
    /\ call.outcome.value.returncode = 2
    /\ call.outcome.value.stderr = "Error from server"

LookupHelpers ==
    {"get_pod_by_name", "get_deployment", "get_service", "get_ingress", "get_pod_logs"}

\* C17: the helpers that run kubectl with check=False never raise
\* KubectlError: the five lookups return None exactly when kubectl exits
\* non-zero, and delete_pod returns True exactly when it exits zero and
\* False otherwise.
C17_UncheckedHelpersReportFailureAsValue ==
    /\ call.fn \in LookupHelpers =>
          /\ ~RaisedKubectlError
          /\ ReturnedNoValue <=> Failed
          /\ ~Failed => ReturnedValue
    /\ Called("delete_pod") =>
          /\ ~RaisedKubectlError
          /\ ReturnedValue
          /\ call.outcome.value \in BOOLEAN
          /\ call.outcome.value <=> ~Failed

\* get_ingress has answered None for a failed lookup.
C17_Witness ==
    /\ Called("get_ingress")
    /\ Failed
    /\ ReturnedNoValue

\* C18: get_pods raises KubectlError when the listing fails, and on
\* success returns the reply's items, or the empty list when the reply
\* has no items key.
C18_GetPodsRaisesOrReturnsItems ==
    Called("get_pods") =>
        /\ Failed => RaisedKubectlError
        /\ ~Failed =>
              /\ ReturnedValue
              /\ LET reply == call.proc.stdout.json
                 IN  call.outcome.value =
                       (IF "items" \in DOMAIN reply THEN reply.items ELSE <<>>)

\* A listing has failed although kubectl printed a list of pods.
C18_Witness ==
    /\ Called("get_pods")
    /\ Failed
    /\ "items" \in DOMAIN call.proc.stdout.json
    /\ call.proc.stdout.json.items # <<>>
    /\ RaisedKubectlError

\* A pod in phase Running all of whose container statuses say ready = true.
RunningAndReady(pod) ==
    /\ pod.status.phase = "Running"
    /\ "containerStatuses" \in DOMAIN pod.status =>
          \A i \in 1..Len(pod.status.containerStatuses) :
              LET cs == pod.status.containerStatuses[i]
              IN  "ready" \in DOMAIN cs /\ cs.ready

\* C19: get_running_pods returns, in their original order, exactly the
\* pods of get_pods that are Running with every container status ready;
\* a status without a ready field is not ready, and a pod in another
\* phase is never returned.
C19_RunningPodsAreTheRunningReadyOnes ==
    (Called("get_running_pods") /\ ~Failed) =>
        /\ ReturnedValue
        /\ LET reply == call.proc.stdout.json
               pods == IF "items" \in DOMAIN reply THEN reply.items ELSE <<>>
           IN  /\ call.outcome.value = SelectSeq(pods, RunningAndReady)
               /\ \A i \in 1..Len(call.outcome.value) :
                     call.outcome.value[i].status.phase \notin
                         {"Pending", "Succeeded", "Failed"}

\* Of two Running pods, the one whose container status does not say
\* ready is left out and the one that is ready is returned.
C19_Witness ==
    /\ Called("get_running_pods")
    /\ ~Failed
    /\ "items" \in DOMAIN call.proc.stdout.json
    /\ LET pods == call.proc.stdout.json.items
       IN  /\ Len(pods) = 2
           /\ pods[1].status.phase = "Running"
           /\ "containerStatuses" \in DOMAIN pods[1].status
           /\ pods[1].status.containerStatuses = << [restartCount |-> 1] >>
           /\ RunningAndReady(pods[2])
           /\ call.outcome.value = << pods[2] >>

\* C20: get_pod_restart_count returns None when the pod is not found, 0
\* when the pod has no container statuses, and otherwise the restartCount
\* of the first container, 0 when it has none; other containers do not
\* count.
C20_RestartCountOfFirstContainer ==
    Called("get_pod_restart_count") =>
        /\ Failed => ReturnedNoValue
        /\ ~Failed =>
              /\ ReturnedValue
              /\ LET status == call.proc.stdout.json.status
                 IN  IF "containerStatuses" \notin DOMAIN status
                        \/ Len(status.containerStatuses) = 0
                     THEN call.outcome.value = 0
                     ELSE LET first == status.containerStatuses[1]
                          IN  IF "restartCount" \in DOMAIN first
                              THEN call.outcome.value = first.restartCount
                              ELSE call.outcome.value = 0

\* The first container restarted twice and the second five times: 2.
C20_Witness ==
    /\ Called("get_pod_restart_count")
    /\ ~Failed
    /\ "containerStatuses" \in DOMAIN call.proc.stdout.json.status
    /\ call.proc.stdout.json.status.containerStatuses =
          << [ready |-> TRUE, restartCount |-> 2], [ready |-> FALSE, restartCount |-> 5] >>
    /\ ReturnedValue
    /\ call.outcome.value = 2

\* Where the word is in a command line, 0 when it is not there.
IndexOf(cmd, word) ==
    IF \E i \in 1..Len(cmd) : cmd[i] = word
    THEN CHOOSE i \in 1..Len(cmd) : cmd[i] = word /\ \A j \in 1..(i - 1) : cmd[j] # word
    ELSE 0

\* C22: whenever get_pod_logs is called with a tail other than None, the
\* kubectl logs command it runs has --tail followed by that value; with
\* tail None the command has no --tail.
C22_TailPassedWheneverGiven ==
    Called("get_pod_logs") =>
        LET cmd == call.outcome.cmd
            at == IndexOf(cmd, "--tail")
        IN  IF call.args.tail = <<>> THEN at = 0
            ELSE /\ at # 0
                 /\ at < Len(cmd)
                 /\ cmd[at + 1] = ToString(call.args.tail[1])

\* The variables of the pod's environment that are not set, in the order
\* the test asks for them.
AbsentVars(env) ==
    LET names == [i \in 1..Len(ExpectedEnvVars) |-> ExpectedEnvVars[i].name]
        IsAbsent(name) == env[name].returncode # 0
    IN  SelectSeq(names, IsAbsent)

\* C25: when printenv exits non-zero for an expected variable the test
\* records it in missing_vars, goes on with the remaining variables, and
\* fails at the end with one assertion that lists every missing variable.
C25_MissingVarsCollectedAndListed ==
    (Called("test_pods_have_config_environment_available")
        /\ AbsentVars(call.proc) # <<>>) =>
            /\ call.outcome.kind = "failed"
            /\ call.outcome.assertion = "Missing environment variables"
            /\ call.outcome.listed = AbsentVars(call.proc)

-----------------------------------------------------------------------------
(* The wait loops: wait_for_pods_ready of utils.py and the wait function   *)
(* of conftest.py's wait_for_stable_state fixture. Time is counted in      *)
(* whole seconds. A kubectl call takes time; time.sleep(n) takes n         *)
(* seconds. The while condition and the start of the poll it lets through  *)
(* are one instant.                                                        *)

\* The largest timeout a test passes.
MaxTimeout == 3

Timeouts == -1..MaxTimeout
PollIntervals == {0, 1, 2}
DesiredCounts == {0, 1, 2}
StartTimes == {0, 1000}
KubectlDurations == {1, 2}

ReadyPod ==
    [ metadata |-> [name |-> "hello-flask-a"],
      status   |-> [ phase |-> "Running",
                     containerStatuses |-> << [ready |-> TRUE, restartCount |-> 0] >> ] ]

PendingPod ==
    [ metadata |-> [name |-> "hello-flask-a"], status |-> [phase |-> "Pending"] ]

\* What a poll's kubectl get pods answers: no pod, one ready pod, a ready
\* and a pending pod, two ready pods, or a failure.
PollReplies ==
    { [returncode |-> 0, stdout |-> [json |-> [kind |-> "List", items |-> l]],
       stderr |-> ""] :
        l \in { <<>>, <<ReadyPod>>, <<ReadyPod, PendingPod>>, <<ReadyPod, ReadyPod>> } }
    \cup
    { [returncode |-> 1, stdout |-> [json |-> [kind |-> "List"]],
       stderr |-> "Error from server"] }

\* The while condition with <= for <.
within_timeout_inclusive(now, start_time, timeout) == now - start_time <= timeout

\* time.time() - start_time < timeout
within_timeout(now, start_time, timeout) == now - start_time < timeout

\* The test of a poll with > for >=.
reached_strictly(running_pods, desired_count) == Len(running_pods) > desired_count

\* len(running_pods) >= desired_count
reached(running_pods, desired_count) == Len(running_pods) >= desired_count

\* The fixture's wait returning at the first poll that reaches the count.
after_reached_unconfirmed(fn) == "returned"

\* Where a poll that reached the count leads: wait_for_pods_ready
\* returns True, the fixture's wait sleeps and polls again to confirm.
after_reached(fn) == IF fn = "wait" THEN "settle" ELSE "returned"

\* A test calls wait_for_pods_ready(desired_count, timeout=, poll_interval=)
\* or the fixture's wait(desired_count, timeout, poll_interval);
\* start_time = time.time().
Wait_call ==
    /\ waiter.at = "idle"
    /\ \E fn \in {"wait_for_pods_ready", "wait"}, desired_count \in DesiredCounts,
          timeout \in Timeouts, poll_interval \in PollIntervals, now \in StartTimes :
        /\ clock' = now
        /\ waiter' = [ fn |-> fn, desired_count |-> desired_count, timeout |-> timeout,
                       poll_interval |-> poll_interval, start_time |-> now,
                       at |-> "while", polls |-> <<>>, result |-> FALSE ]
    /\ UNCHANGED <<vars, process, workers, call>>

\* while time.time() - start_time < timeout: ... ; return False
Wait_while ==
    /\ waiter.at = "while"
    /\ IF within_timeout(clock, waiter.start_time, waiter.timeout)
       THEN waiter' = [waiter EXCEPT !.at = "poll"]
       ELSE waiter' = [waiter EXCEPT !.at = "returned", !.result = FALSE]
    /\ UNCHANGED <<vars, process, workers, call, clock>>

\* What a poll leaves behind: when it started and ended, how many pods
\* it saw running and ready, and whether it was a confirming poll.
Polled(started, ended, running_pods, confirming) ==
    [ started |-> started, ended |-> ended, seen |-> Len(running_pods),
      confirming |-> confirming ]

\* running_pods = get_running_pods(...); if len(running_pods) >=
\* desired_count: ... A KubectlError of get_pods leaves the loop.
Wait_poll ==
    /\ waiter.at = "poll"
    /\ \E proc \in PollReplies, took \in KubectlDurations :
        LET running_pods == get_running_pods(LabelSelector, "default", proc)
        IN  /\ clock' = clock + took
            /\ IF running_pods.kind = "raise"
               THEN waiter' = [waiter EXCEPT !.at = "raised"]
               ELSE waiter' =
                      [waiter EXCEPT
                         !.polls = Append(@, Polled(clock, clock + took,
                                                    running_pods.value, FALSE)),
                         !.at = IF reached(running_pods.value, waiter.desired_count)
                                THEN after_reached(waiter.fn) ELSE "sleep",
                         !.result = reached(running_pods.value, waiter.desired_count)
                                    /\ after_reached(waiter.fn) = "returned"]
    /\ UNCHANGED <<vars, process, workers, call>>

\* The loop going from its sleep straight to the next poll.
Wait_sleep_then_poll ==
    /\ waiter.at = "sleep"
    /\ clock' = clock + waiter.poll_interval
    /\ waiter' = [waiter EXCEPT !.at = "poll"]
    /\ UNCHANGED <<vars, process, workers, call>>

\* time.sleep(poll_interval) at the end of the loop body.
Wait_sleep ==
    /\ waiter.at = "sleep"
    /\ clock' = clock + waiter.poll_interval
    /\ waiter' = [waiter EXCEPT !.at = "while"]
    /\ UNCHANGED <<vars, process, workers, call>>

\* The fixture's time.sleep(poll_interval) before its confirming poll.
Stable_settle ==
    /\ waiter.at = "settle"
    /\ clock' = clock + waiter.poll_interval
    /\ waiter' = [waiter EXCEPT !.at = "confirm"]
    /\ UNCHANGED <<vars, process, workers, call>>

\* running_check = get_running_pods(...); if len(running_check) >=
\* desired_count: return True
Stable_confirm ==
    /\ waiter.at = "confirm"
    /\ \E proc \in PollReplies, took \in KubectlDurations :
        LET running_check == get_running_pods(LabelSelector, "default", proc)
        IN  /\ clock' = clock + took
            /\ IF running_check.kind = "raise"
               THEN waiter' = [waiter EXCEPT !.at = "raised"]
               ELSE waiter' =
                      [waiter EXCEPT
                         !.polls = Append(@, Polled(clock, clock + took,
                                                    running_check.value, TRUE)),
                         !.at = IF reached(running_check.value, waiter.desired_count)
                                THEN "returned" ELSE "sleep",
                         !.result = reached(running_check.value, waiter.desired_count)]
    /\ UNCHANGED <<vars, process, workers, call>>

WaitStep ==
    \/ Wait_while
    \/ Wait_poll
    \/ Wait_sleep
    \/ Stable_settle
    \/ Stable_confirm

NextWait ==
    \/ Wait_call
    \/ Wait_while
    \/ Wait_poll
    \/ Wait_sleep
    \/ Stable_settle
    \/ Stable_confirm

SpecWait == Init /\ [][NextWait]_allvars

\* The interpreter runs the loop's next statement whenever there is one.
SpecWaitFair == SpecWait /\ WF_allvars(WaitStep)

\* The wait loop that runs or has run, and how it ended.
Waiting(fn) == waiter.at # "idle" /\ waiter.fn = fn
ReturnedTrue == waiter.at = "returned" /\ waiter.result
ReturnedFalse == waiter.at = "returned" /\ ~waiter.result
Elapsed == clock - waiter.start_time
Reached(i) == waiter.polls[i].seen >= waiter.desired_count

\* C21: wait_for_pods_ready returns True exactly when one of its polls
\* saw at least desired_count running and ready pods, and it returns at
\* the first such poll without polling again; it returns False only when
\* the timeout has elapsed and every poll saw fewer.
C21_TrueIffAPollReachedCount ==
    Waiting("wait_for_pods_ready") =>
        /\ ReturnedTrue <=> \E i \in 1..Len(waiter.polls) : Reached(i)
        /\ \A i \in 1..(Len(waiter.polls) - 1) : ~Reached(i)
        /\ ReturnedFalse =>
              /\ Elapsed >= waiter.timeout
              /\ \A i \in 1..Len(waiter.polls) : ~Reached(i)

\* The first poll saw too few pods, the second saw enough: True.
C21_Witness ==
    /\ Waiting("wait_for_pods_ready")
    /\ ReturnedTrue
    /\ Len(waiter.polls) = 2
    /\ waiter.desired_count = 2
    /\ waiter.polls[1].seen = 1
    /\ waiter.polls[2].seen = 2

\* C23: wait_for_pods_ready always ends: it returns True or False (or a
\* kubectl call fails and its KubectlError leaves the loop), and no poll
\* starts once timeout seconds have passed since start_time.
C23_WaitTerminatesAndNeverPollsLate ==
    /\ Waiting("wait_for_pods_ready") ~> (waiter.at \in {"returned", "raised"})
    /\ [](Waiting("wait_for_pods_ready") =>
             \A i \in 1..Len(waiter.polls) :
                 waiter.polls[i].started - waiter.start_time < waiter.timeout)

\* Three polls, none saw enough pods, the timeout passed: False.
C23_Witness ==
    /\ Waiting("wait_for_pods_ready")
    /\ ReturnedFalse
    /\ Len(waiter.polls) = 3
    /\ Elapsed >= waiter.timeout

\* The last poll failed to confirm the one before it.
ConfirmationFailed(i) ==
    /\ i \in 2..Len(waiter.polls)
    /\ waiter.polls[i].confirming
    /\ ~Reached(i)

\* The last two polls are a poll and its confirming poll, one
\* poll_interval apart, and both saw enough pods.
ConfirmedPair ==
    LET n == Len(waiter.polls)
    IN  /\ n >= 2
        /\ ~waiter.polls[n - 1].confirming /\ Reached(n - 1)
        /\ waiter.polls[n].confirming /\ Reached(n)
        /\ waiter.polls[n].started = waiter.polls[n - 1].ended + waiter.poll_interval

\* C24 as stated: the fixture's wait returns True only after a confirmed
\* pair of polls, and once a confirming poll has failed the call does not
\* return True: it polls until the timeout and returns False.
C24_Original ==
    Waiting("wait") =>
        /\ ReturnedTrue => ConfirmedPair
        /\ (\E i \in 1..Len(waiter.polls) : ConfirmationFailed(i)) => ~ReturnedTrue
        /\ ReturnedFalse => Elapsed >= waiter.timeout

\* C24: the fixture's wait returns True only after a poll and its
\* confirming poll, one poll_interval sleep apart, both saw at least
\* desired_count pods; a failed confirmation does not return True there
\* but sleeps and goes on with the loop, which returns True at a later
\* confirmed pair or False once the timeout has passed.
C24_TrueOnlyAfterConfirmedPair ==
    Waiting("wait") =>
        /\ ReturnedTrue => ConfirmedPair
        /\ ConfirmationFailed(Len(waiter.polls)) =>
              /\ ~ReturnedTrue
              /\ waiter.at = "returned" => Elapsed >= waiter.timeout
        /\ ReturnedFalse =>
              /\ Elapsed >= waiter.timeout
              /\ \/ waiter.polls = <<>>
                 \/ ~Reached(Len(waiter.polls))

\* A first confirmation failed, the next poll and its confirmation both
\* saw enough pods: True.
C24_Witness ==
    /\ Waiting("wait")
    /\ ReturnedTrue
    /\ Len(waiter.polls) = 4
    /\ Reached(1)
    /\ ConfirmationFailed(2)
    /\ ConfirmedPair

\* C27: wait_for_pods_ready with a timeout of 0 or less returns False
\* without a single poll, whatever the cluster holds and whatever
\* desired_count is, 0 included.
C27_NoPollWithoutTimeout ==
    (Waiting("wait_for_pods_ready") /\ waiter.timeout <= 0) =>
        /\ waiter.polls = <<>>
        /\ waiter.at \in {"while", "returned"}
        /\ waiter.at = "returned" => ~waiter.result

\* With timeout 0 and desired_count 0 the call has returned False.
C27_Witness ==
    /\ Waiting("wait_for_pods_ready")
    /\ waiter.timeout = 0
    /\ waiter.desired_count = 0
    /\ ReturnedFalse
    /\ waiter.polls = <<>>

\* The rules of the Ingress the test was given, none when there is no
\* spec or no rules key.
RulesOf(ingress) ==
    IF "spec" \in DOMAIN ingress /\ "rules" \in DOMAIN ingress.spec
    THEN ingress.spec.rules ELSE <<>>

\* The host of the first rule, hello-flask.local when it names none.
HostOf(ingress) ==
    IF "host" \in DOMAIN RulesOf(ingress)[1] THEN RulesOf(ingress)[1].host
    ELSE <<"hello-flask", "local">>

InCI == call.args.environ.CI = "true" \/ call.args.environ.GITHUB_ACTIONS = "true"

\* 'minikube ip' succeeded and printed an address.
MinikubeIPAvailable == call.proc.returncode = 0 /\ call.proc.stdout # <<>>

\* C26: get_ingress_url_and_host returns (None, None) for an Ingress
\* without rules; in CI with a Minikube IP it returns http://<ip> and the
\* ingress host, and the caller sends that host as Host header; in every
\* other case it returns http://<ingress host> and the caller sends no
\* Host header.
C26_IngressUrlAndHostHeader ==
    Called("test_ingress_service_reachable") =>
        LET ingress == call.args.ingress
            pair == call.outcome.pair
        IN  IF RulesOf(ingress) = <<>> THEN pair.is_none
            ELSE /\ ~pair.is_none
                 /\ pair.host_header = HostOf(ingress)
                 /\ call.outcome.kind = "request"
                 /\ IF InCI /\ MinikubeIPAvailable
                    THEN /\ pair.url = <<"http://">> \o MinikubeIP
                         /\ DOMAIN call.outcome.headers = {"Host"}
                         /\ call.outcome.headers.Host = HostOf(ingress)
                    ELSE /\ pair.url = <<"http://">> \o HostOf(ingress)
                         /\ DOMAIN call.outcome.headers = {}

\* In GitHub Actions with Minikube up, the request goes to the Minikube
\* IP with the ingress host as Host header.
C26_Witness ==
    /\ Called("test_ingress_service_reachable")
    /\ call.args.environ.GITHUB_ACTIONS = "true"
    /\ call.args.environ.CI = None
    /\ MinikubeIPAvailable
    /\ RulesOf(call.args.ingress) # <<>>
    /\ call.outcome.kind = "request"
    /\ call.outcome.url = <<"http://", "192", "168", "49", "2">>
    /\ call.outcome.headers = [Host |-> <<"app", "example", "test">>]

=============================================================================
